---- MODULE Spec2Model ----
(***************************************************************************)
(* The orchestration layer of the moonshine Lua VM (vm/src/VM.js):         *)
(* the status state machine (suspend / resume and the deferred check),     *)
(* the resume stack and the callback queue, the execution driver          *)
(* (load / execute, coroutine stepping on the host's timer), the global    *)
(* namespace (_resetGlobals, setGlobal / getGlobal) and teardown           *)
(* (dispose and the statics of shine.Closure and shine.Coroutine that all  *)
(* the VMs of a process share).                                            *)
(*                                                                         *)
(* JavaScript runs every handler to completion, so each host API call and  *)
(* each firing of a host timer is one atomic action: one scheduler turn.   *)
(* The behaviour of guest units, of queued callbacks and of                *)
(* shine.Error.catchExecutionError is not part of VM.js; it is an input    *)
(* of the actions, drawn from small sets.                                  *)
(***************************************************************************)
EXTENDS Integers, Sequences, FiniteSets, TLC

(* ------------------------------ bounds -------------------------------- *)

\* suspensions of units, enqueued callbacks, suspend() calls and records put into the
\* shared pools over a run, together
MaxOps == 3
\* load() and execute() calls over a run, together
MaxRuns == 2
\* longest chain of callbacks enqueued by running callbacks
MaxSpawn == 1
\* resume-steps a guest unit needs to finish
MaxSteps == 3
\* keys of the host environment map
MaxEnv == 2
\* setGlobal() calls over a run
MaxSets == 1
\* other VMs the host constructs in the same process
MaxPeers == 1

(* -------------------------- status constants -------------------------- *)

RUNNING == 0
SUSPENDING == 1
SUSPENDED == 2
RESUMING == 3
DEAD == 4

(* ------------------------------- state -------------------------------- *)

VARIABLES
  status,         \* this._status
  resumeStack,    \* this._resumeStack
  callbackQueue,  \* this._callbackQueue
  files,          \* this._files
  thread,         \* this._thread: id of the file of the last unit created, 0 = unset
  fmFiles,        \* the files the FileManager has loaded, in load order
  pendingLoads,   \* load requests the FileManager has not answered yet
  timers,         \* window.setTimeout callbacks not fired yet, in timer order
  cos,            \* the coroutines execute() has wrapped around its threads
  last,           \* what the last handler did (observation only)
  driven,         \* units re-driven by the resume() calls since the last suspension
  pushed,         \* the resume stack as it was after the last suspension
  lastSR,         \* which of suspend() / resume() was called last
  nUnits, nCallbacks, nSuspends, nLoads, nExecs,  \* counters for the bounds
  fileManager,    \* whether this.fileManager is there (dispose() deletes it)
  env,            \* this._env
  globals,        \* this._globals
  loaded,         \* the entries of the `loaded` table of the library's package table
  rebound,        \* the names setGlobal() has written
  closureGraveyard,    \* shine.Closure._graveyard: the VM each record came from
  closureCurrent,      \* shine.Closure._current: the VM it belongs to, 0 = undefined
  coroutineGraveyard,  \* shine.Coroutine._graveyard: the VM each record came from
  peers,          \* the other VMs of the process: whether each has its fileManager
  nSets, nPooled  \* counters for the bounds

vars == <<status, resumeStack, callbackQueue, files, thread, fmFiles, pendingLoads,
          timers, cos, last, driven, pushed, lastSR,
          nUnits, nCallbacks, nSuspends, nLoads, nExecs,
          fileManager, env, globals, loaded, rebound,
          closureGraveyard, closureCurrent, coroutineGraveyard, peers, nSets, nPooled>>

\* the calls made so far that MaxOps and MaxRuns bound
Ops == nUnits + nCallbacks + nSuspends + nPooled
Runs == nLoads + nExecs

\* the state of the execution driver, and the state of suspend / resume
execVars == <<files, thread, fmFiles, pendingLoads, cos, nLoads, nExecs>>
resumeVars == <<resumeStack, callbackQueue, driven, pushed, nUnits, nCallbacks>>
\* the global namespace, and the statics all the VMs of the process share
globalVars == <<env, globals, loaded, rebound, nSets>>
poolVars == <<closureGraveyard, closureCurrent, coroutineGraveyard, peers, nPooled>>

(* ---------------------------- value spaces ---------------------------- *)

\* a possibly-undefined number (f._pc) and NaN, the result of undefined - 1
NumVal(n) == [t |-> "number", n |-> n]
UndefinedVal == [t |-> "undefined", n |-> 0]
NaNVal == [t |-> "NaN", n |-> 0]

UnitKinds == {"Coroutine", "Closure", "function"}
NoUnit == [id |-> 0, kind |-> "none"]
\* the values f._pc may have when f has thrown: a plain function has no _pc
PcValues(f) ==
  IF f.kind = "function" THEN {UndefinedVal}
  ELSE IF f.kind = "Closure" THEN {NumVal(0), NumVal(7)}
  ELSE {UndefinedVal, NumVal(7)}

\* the values a unit may throw: undefined (null behaves alike), a native Error (a
\* primitive behaves alike, with an empty stack text), a shine.Error without and
\* with a luaStack
RaisedValues == {"undefined", "Error", "shineError", "shineErrorWithLuaStack"}
\* what running a unit does: it returns, or it throws one of the values
UnitOutcomes == {"returns"} \cup RaisedValues

NoFile == [id |-> 0, data |-> FALSE]
\* a File the host constructed itself and never loaded
UnloadedFile == [id |-> MaxRuns + 1, data |-> FALSE]

CoConfigs == {"none", "plain", "uiOnly"}
\* the values of load()'s execute argument: omitted, the booleans, a falsy value that
\* is not false (0; null and '' behave alike), a truthy value that is not true
ExecuteArgs == {"undefined", "true", "false", "zero", "one"}

\* a line of native stack text in a luaStack, and a frame an inner call appended
TextLine == [unit |-> 0, pc |-> UndefinedVal]
InnerFrame == [unit |-> MaxOps + 1, pc |-> NumVal(0)]

Last(s) == s[Len(s)]
Front(s) == SubSeq(s, 1, Len(s) - 1)
Range(s) == {s[i] : i \in DOMAIN s}
Reverse(s) == [i \in 1..Len(s) |-> s[Len(s) + 1 - i]]

NoTimer == [type |-> "none", co |-> 0, resumed |-> FALSE]

\* A value of the global namespace: what it is, where it comes from ("lib": bound
\* from shine.lib by this VM, "host": supplied by the host, "vm": the namespace
\* itself) and, for a library value, the entry it was bound from. Two values are
\* the same reference when the records are equal.
NoValue == [kind |-> "undefined", origin |-> "none", name |-> ""]
HostScalar == [kind |-> "scalar", origin |-> "host", name |-> ""]
HostTable == [kind |-> "table", origin |-> "host", name |-> ""]
HostValues == {HostScalar, HostTable}
GlobalsRef == [kind |-> "table", origin |-> "vm", name |-> "_G"]

Idle(op, st) ==
  [op |-> op, statusBefore |-> st, outcome |-> "returned", thrown |-> "none",
   normalized |-> FALSE, raised |-> "none", handed |-> <<>>, popped |-> NoUnit,
   invoked |-> <<>>, preQueue |-> <<>>, created |-> <<>>, events |-> <<>>,
   timer |-> NoTimer, arg |-> NoFile, coConfig |-> "none", pc |-> UndefinedVal,
   name |-> "", value |-> NoValue, execute |-> "none"]

(* ------------------------- suspend and resume -------------------------- *)

\* the deferred check without its guard, and a deferred check that does nothing
DeferredCheckUnguarded(s) == SUSPENDED
DeferredCheckNever(s) == s

\* line 197, the deferred check of suspend()
DeferredCheck(s) == IF s = SUSPENDING THEN SUSPENDED ELSE s

\* suspend() setting SUSPENDED itself
SuspendStatusDirect(s) == SUSPENDED

\* line 194
SuspendStatus(s) == SUSPENDING

\* lines 191-199
suspend ==
  /\ Ops < MaxOps
  /\ nSuspends' = nSuspends + 1
  /\ status' = SuspendStatus(status)
  /\ timers' = Append(timers, [type |-> "suspendCheck", co |-> 0, resumed |-> FALSE])
  /\ lastSR' = "suspend"
  /\ last' = Idle("suspend", status)
  /\ UNCHANGED <<resumeVars, execVars, fileManager, globalVars, poolVars>>

\* lines 196-198: the host fires the oldest timer, and it is suspend()'s check
SuspendCheck ==
  /\ timers # <<>>
  /\ Head(timers).type = "suspendCheck"
  /\ status' = DeferredCheck(status)
  /\ timers' = Tail(timers)
  /\ last' = [Idle("suspendCheck", status) EXCEPT !.timer = Head(timers)]
  /\ UNCHANGED <<resumeVars, execVars, lastSR, nSuspends, fileManager, globalVars, poolVars>>

\* resume() taking the oldest unit: shift() for pop()
StackTakeOldest(stack) ==
  IF stack = <<>> THEN [f |-> NoUnit, rest |-> <<>>]
  ELSE [f |-> Head(stack), rest |-> Tail(stack)]

\* line 211: this._resumeStack.pop()
StackTake(stack) ==
  IF stack = <<>> THEN [f |-> NoUnit, rest |-> <<>>]
  ELSE [f |-> Last(stack), rest |-> Front(stack)]

\* the drain taking the newest callback: pop() for shift()
QueueTakeNewest(queue) == [cb |-> Last(queue), rest |-> Front(queue)]

\* line 240: this._callbackQueue.shift()
QueueTake(queue) == [cb |-> Head(queue), rest |-> Tail(queue)]

\* f._pc - 1 (line 233); undefined - 1 is NaN
PcMinusOne(pc) == IF pc.t = "number" THEN NumVal(pc.n - 1) ELSE NaNVal

IsShineError(e) == e \in {"shineError", "shineErrorWithLuaStack"}

\* lines 223-234: the catch block of resume() up to the call of the normalizer, for
\* the unit f, its _pc and the value e it threw.
\* typeError: the block itself throws (e.stack of undefined or null, line 225).
CatchBlock(f, pc, e) ==
  IF ~IsShineError(e) /\ e = "undefined"
  THEN [typeError |-> TRUE, err |-> [type |-> e, wrapped |-> FALSE, luaStack |-> <<>>]]
  ELSE LET luaStack0 ==
             IF ~IsShineError(e)
             THEN <<TextLine, TextLine>>
             ELSE (IF e = "shineErrorWithLuaStack" THEN <<InnerFrame>> ELSE <<>>)
       IN [typeError |-> FALSE,
           err |-> [type |-> "shineError", wrapped |-> ~IsShineError(e),
                    luaStack |-> Append(luaStack0, [unit |-> f.id, pc |-> PcMinusOne(pc)])]]

\* A queued callback is [id, gen]: the host enqueued callback id at gen 0, and a
\* callback of gen g, when run, may enqueue its successor [id, g + 1].
\* beh[id] says what the callbacks of chain id do when run: those of gen < spawn
\* enqueue their successor, the last one throws or returns.
Behaviours == [spawn : 0..MaxSpawn, throws : BOOLEAN]
Child(cb) == [cb EXCEPT !.gen = @ + 1]
Spawns(cb, beh) == cb.gen < beh[cb.id].spawn
CallbackThrows(cb, beh) == ~Spawns(cb, beh) /\ beh[cb.id].throws

\* the drain dropping what is left of the queue when a callback throws
RECURSIVE DrainQueueDropping(_, _, _)
DrainQueueDropping(queue, invoked, beh) ==
  IF queue = <<>> THEN [queue |-> queue, invoked |-> invoked, threw |-> FALSE]
  ELSE LET t == QueueTake(queue) IN
       IF CallbackThrows(t.cb, beh)
       THEN [queue |-> <<>>, invoked |-> Append(invoked, t.cb), threw |-> TRUE]
       ELSE DrainQueueDropping(IF Spawns(t.cb, beh) THEN Append(t.rest, Child(t.cb))
                               ELSE t.rest,
                               Append(invoked, t.cb), beh)

\* line 240: while (this._callbackQueue[0]) this._callbackQueue.shift()();
RECURSIVE DrainQueue(_, _, _)
DrainQueue(queue, invoked, beh) ==
  IF queue = <<>> THEN [queue |-> queue, invoked |-> invoked, threw |-> FALSE]
  ELSE LET t == QueueTake(queue) IN
       IF CallbackThrows(t.cb, beh)
       THEN [queue |-> t.rest, invoked |-> Append(invoked, t.cb), threw |-> TRUE]
       ELSE DrainQueue(IF Spawns(t.cb, beh) THEN Append(t.rest, Child(t.cb)) ELSE t.rest,
                       Append(invoked, t.cb), beh)

\* lines 213-240: what resume() does with the popped unit f and the callback queue.
\* outcome: what running f does; pc: f._pc after it; rethrows: whether
\* catchExecutionError throws; beh: what the callbacks do.
ResumeBody(f, outcome, pc, rethrows, queue, beh) ==
  LET drain == DrainQueue(queue, <<>>, beh)
      drained(handed, raised) ==
        [thrown |-> IF drain.threw THEN "callbackFault" ELSE "none",
         normalized |-> FALSE, raised |-> raised, handed |-> handed,
         queue |-> drain.queue, invoked |-> drain.invoked]
      c == CatchBlock(f, pc, outcome)
  IN IF f = NoUnit THEN drained(<<>>, "none")
     ELSE IF outcome = "returns" THEN drained(<<>>, "none")
     ELSE IF c.typeError
     THEN [thrown |-> "TypeError", normalized |-> FALSE, raised |-> outcome,
           handed |-> <<>>, queue |-> queue, invoked |-> <<>>]
     ELSE IF rethrows
     THEN [thrown |-> "shineError", normalized |-> TRUE, raised |-> outcome,
           handed |-> <<c.err>>, queue |-> queue, invoked |-> <<>>]
     ELSE drained(<<c.err>>, outcome)

\* resume() putting the status back to RUNNING
ResumeStatusRunning(s) == RUNNING

\* line 208
ResumeStatus(s) == RESUMING

\* lines 207-241
resume ==
  LET t == StackTake(resumeStack) IN
  \E outcome \in (IF t.f = NoUnit THEN {"returns"} ELSE UnitOutcomes) :
    \E pc \in (IF outcome = "returns" THEN {UndefinedVal} ELSE PcValues(t.f)),
       rethrows \in (IF outcome = "returns" THEN {FALSE} ELSE BOOLEAN) :
     \* what the callbacks would do matters only if the call gets to line 240
     \E beh \in (IF outcome # "returns" /\ (rethrows \/ CatchBlock(t.f, pc, outcome).typeError)
                 THEN {[id \in {callbackQueue[i].id : i \in DOMAIN callbackQueue} |->
                          [spawn |-> 0, throws |-> FALSE]]}
                 ELSE [{callbackQueue[i].id : i \in DOMAIN callbackQueue} -> Behaviours]) :
      LET r == ResumeBody(t.f, outcome, pc, rethrows, callbackQueue, beh)
      IN /\ status' = ResumeStatus(status)
         /\ resumeStack' = t.rest
         /\ callbackQueue' = r.queue
         /\ driven' = IF t.f # NoUnit THEN Append(driven, t.f) ELSE driven
         /\ lastSR' = "resume"
         /\ timers' = [i \in DOMAIN timers |->
                         IF timers[i].type = "suspendCheck"
                         THEN [timers[i] EXCEPT !.resumed = TRUE] ELSE timers[i]]
         /\ last' = [Idle("resume", status) EXCEPT
                       !.outcome = IF r.thrown = "none" THEN "returned" ELSE "threw",
                       !.thrown = r.thrown, !.normalized = r.normalized,
                       !.raised = r.raised, !.handed = r.handed, !.popped = t.f,
                       !.invoked = r.invoked, !.preQueue = callbackQueue, !.pc = pc]
         /\ UNCHANGED <<execVars, pushed, nUnits, nCallbacks, nSuspends,
                        fileManager, globalVars, poolVars>>

\* a unit suspends mid-flight and is recorded on the resume stack
Suspension ==
  /\ Ops < MaxOps
  /\ \E kind \in UnitKinds :
       resumeStack' = Append(resumeStack, [id |-> nUnits + 1, kind |-> kind])
  /\ nUnits' = nUnits + 1
  /\ pushed' = resumeStack'
  /\ driven' = <<>>
  /\ last' = Idle("suspension", status)
  /\ UNCHANGED <<status, callbackQueue, timers, lastSR, nCallbacks, nSuspends, execVars,
                 fileManager, globalVars, poolVars>>

\* guest or host code queues a deferred action for the next resume()
Enqueue ==
  /\ Ops < MaxOps
  /\ callbackQueue' = Append(callbackQueue, [id |-> nCallbacks + 1, gen |-> 0])
  /\ nCallbacks' = nCallbacks + 1
  /\ last' = Idle("enqueue", status)
  /\ UNCHANGED <<status, resumeStack, timers, driven, pushed, lastSR, nUnits, nSuspends,
                 execVars, fileManager, globalVars, poolVars>>

(* ------------------------- the execution driver ------------------------ *)

\* What a guest thread does in one resume-step, or in its one run when it is called
\* outside a coroutine: it yields, it finishes, or it throws. What it throws,
\* execute() passes on as it is.
StepOutcomes == {"yield", "finish", "fault"}
\* a thread needs at most MaxSteps resume-steps; called directly it cannot yield
OutcomesAfter(done) ==
  {"finish", "fault"} \cup (IF done + 1 < MaxSteps THEN {"yield"} ELSE {})
FirstOutcomes(coConfig) == IF coConfig = "none" THEN {"finish", "fault"} ELSE OutcomesAfter(0)

\* one call of the function coroutine.wrap returns: a resume-step of the coroutine,
\* in which the guest code does `outcome`
CoStep(co, outcome) ==
  [co |-> [co EXCEPT !.done = @ + 1,
                     !.status = IF outcome = "yield" THEN SUSPENDED ELSE DEAD,
                     !.faulted = (outcome = "fault")],
   threw |-> outcome = "fault"]

\* the closure `resume` looping on co() until the coroutine is dead, in one turn
ResumeClosureInline(co, coConfig, outcome) ==
  [co |-> [co EXCEPT !.done = IF outcome = "yield" THEN MaxSteps ELSE @ + 1,
                     !.status = DEAD, !.faulted = (outcome = "fault")],
   threw |-> outcome = "fault", schedule |-> FALSE]

\* lines 146-149: the closure `resume` of execute(); schedule: it calls setTimeout
ResumeClosure(co, coConfig, outcome) ==
  LET r == CoStep(co, outcome) IN
  [co |-> r.co, threw |-> r.threw,
   schedule |-> ~r.threw /\ coConfig = "uiOnly" /\ r.co.status # DEAD]

\* lines 141-152: the try block of execute() for one thread; coId: the index the
\* coroutine gets in cos
TryBlock(coConfig, outcome, coId) ==
  IF coConfig = "none"
  THEN [threw |-> outcome = "fault", cos |-> <<>>, timers |-> <<>>]
  ELSE LET co == [uiOnly |-> coConfig = "uiOnly", done |-> 0, turns |-> 1,
                  status |-> SUSPENDED, faulted |-> FALSE]
           r == ResumeClosure(co, coConfig, outcome)
       IN [threw |-> r.threw, cos |-> <<r.co>>,
           timers |-> IF r.schedule
                      THEN <<[type |-> "coStep", co |-> coId, resumed |-> FALSE]>>
                      ELSE <<>>]

\* line 122: files = file ? [file] : this._files
Targets(file, thisFiles) ==
  IF file # NoFile THEN [def |-> TRUE, list |-> <<file>>] ELSE thisFiles

\* lines 130-158: the loop of execute() from target i on. outcomes[i]: what the
\* thread of target i does when first run; rethrows[i]: whether catchExecutionError
\* throws for its fault; coBase: Len(cos) at the call
RECURSIVE ExecLoop(_, _, _, _, _, _, _)
ExecLoop(list, i, coConfig, outcomes, rethrows, coBase, acc) ==
  IF i > Len(list) THEN acc
  ELSE IF ~list[i].data
  THEN [acc EXCEPT !.thrown = "NoData"]
  ELSE LET a1 == [acc EXCEPT !.thread = list[i].id, !.created = Append(@, list[i].id),
                             !.events = Append(@, "executing")]
           run == TryBlock(coConfig, outcomes[i], coBase + Len(acc.cos) + 1)
           a2 == [a1 EXCEPT !.cos = @ \o run.cos, !.timers = @ \o run.timers]
           a3 == [a2 EXCEPT !.raised = "Error",
                            !.handed = Append(@, [type |-> "Error", wrapped |-> FALSE,
                                                  luaStack |-> <<>>])]
       IN IF ~run.threw THEN ExecLoop(list, i + 1, coConfig, outcomes, rethrows, coBase, a2)
          ELSE IF rethrows[i] THEN [a3 EXCEPT !.thrown = "normalized", !.normalized = TRUE]
          ELSE ExecLoop(list, i + 1, coConfig, outcomes, rethrows, coBase, a3)

NoExecution(thisThread) ==
  [thrown |-> "none", normalized |-> FALSE, raised |-> "none", handed |-> <<>>,
   created |-> <<>>,
   events |-> <<>>, thread |-> thisThread, cos |-> <<>>, timers |-> <<>>]

\* lines 120-159: execute(coConfig, file) as a function of the state it reads
ExecuteBody(coConfig, file, thisFiles, outcomes, rethrows, coBase, thisThread) ==
  LET t == Targets(file, thisFiles) IN
  IF ~t.def THEN [NoExecution(thisThread) EXCEPT !.thrown = "TypeError"]
  ELSE IF Len(t.list) = 0 THEN [NoExecution(thisThread) EXCEPT !.thrown = "NoFiles"]
  ELSE ExecLoop(t.list, 1, coConfig, outcomes, rethrows, coBase, NoExecution(thisThread))

\* the files the host can pass to execute()
FileArgs == {NoFile, UnloadedFile} \cup Range(fmFiles)

NumTargets(file) == LET t == Targets(file, files) IN IF t.def THEN Len(t.list) ELSE 0

\* lines 120-159
execute ==
  /\ Runs < MaxRuns
  /\ nExecs' = nExecs + 1
  /\ \E coConfig \in CoConfigs, file \in FileArgs :
       \E outcomes \in [1..NumTargets(file) -> FirstOutcomes(coConfig)],
          rethrows \in [1..NumTargets(file) -> BOOLEAN] :
         LET r == ExecuteBody(coConfig, file, files, outcomes, rethrows, Len(cos), thread)
         IN /\ thread' = r.thread
            /\ cos' = cos \o r.cos
            /\ timers' = timers \o r.timers
            /\ last' = [Idle("execute", status) EXCEPT
                          !.outcome = IF r.thrown = "none" THEN "returned" ELSE "threw",
                          !.thrown = r.thrown, !.normalized = r.normalized,
                          !.raised = r.raised, !.handed = r.handed, !.created = r.created,
                          !.events = r.events, !.arg = file, !.coConfig = coConfig]
  /\ UNCHANGED <<status, lastSR, nSuspends, resumeVars, files, fmFiles, pendingLoads, nLoads,
                 fileManager, globalVars, poolVars>>

\* JavaScript's truthiness of the values of ExecuteArgs
Truthy(x) == x \in {"true", "one"}

\* load() executing unless its argument is the boolean false
ShouldExecuteUnlessFalse(x) == x # "false"

\* lines 120-159, called without a coroutineConfig: thread.call() at line 142
executeDirect == execute /\ last'.coConfig = "none"

\* line 108: if (execute || execute === undefined)
ShouldExecute(x) == Truthy(x) \/ x = "undefined"

\* line 148: the host fires the oldest timer, and it is a scheduled resume-step
CoResumeStep ==
  /\ timers # <<>>
  /\ Head(timers).type = "coStep"
  /\ \E outcome \in OutcomesAfter(cos[Head(timers).co].done) :
       LET i == Head(timers).co
           r == ResumeClosure(cos[i], "uiOnly", outcome)
       IN /\ cos' = [cos EXCEPT ![i] = [r.co EXCEPT !.turns = @ + 1]]
          /\ timers' = IF r.schedule THEN Append(Tail(timers), Head(timers))
                       ELSE Tail(timers)
          /\ last' = [Idle("coStep", status) EXCEPT
                        !.outcome = IF r.threw THEN "threw" ELSE "returned",
                        !.thrown = IF r.threw THEN "guestFault" ELSE "none",
                        !.raised = IF r.threw THEN "Error" ELSE "none",
                        !.timer = Head(timers)]
  /\ UNCHANGED <<status, lastSR, nSuspends, resumeVars, files, thread, fmFiles,
                 pendingLoads, nLoads, nExecs, fileManager, globalVars, poolVars>>

\* lines 101-104: load() hands the url and its callback to the FileManager; once
\* dispose() has deleted this.fileManager, the call of its load throws
load ==
  /\ Runs < MaxRuns
  /\ nLoads' = nLoads + 1
  /\ IF fileManager
     THEN /\ \E x \in ExecuteArgs, coConfig \in CoConfigs :
               \* a coConfig comes with an execute argument, and it is read only if
               \* the file is executed: the host passes it with execute = true
               /\ coConfig # "none" => x = "true"
               /\ pendingLoads' =
                    pendingLoads \cup {[id |-> nLoads + 1, execute |-> x, coConfig |-> coConfig]}
          /\ last' = Idle("load", status)
     ELSE /\ last' = [Idle("load", status) EXCEPT !.outcome = "threw", !.thrown = "TypeError"]
          /\ UNCHANGED pendingLoads
  /\ UNCHANGED <<status, timers, lastSR, nSuspends, resumeVars, files, thread, fmFiles,
                 cos, nExecs, fileManager, globalVars, poolVars>>

\* lines 104-109: the FileManager answers a load with an error or with the file
LoadCallback ==
  \E req \in pendingLoads, err \in BOOLEAN :
    /\ pendingLoads' = pendingLoads \ {req}
    /\ IF err
       THEN /\ last' = [Idle("loadCallback", status) EXCEPT
                          !.outcome = "threw", !.thrown = "URIError"]
            /\ UNCHANGED <<fmFiles, thread, cos, timers>>
       ELSE LET file == [id |-> req.id, data |-> TRUE]
                n == IF ShouldExecute(req.execute) THEN 1 ELSE 0
            IN /\ fmFiles' = Append(fmFiles, file)
               /\ \E outcomes \in [1..n -> FirstOutcomes(req.coConfig)],
                     rethrows \in [1..n -> BOOLEAN] :
                    LET r == IF n = 1
                             THEN ExecuteBody(req.coConfig, file, files, outcomes, rethrows,
                                              Len(cos), thread)
                             ELSE NoExecution(thread)
                    IN /\ thread' = r.thread
                       /\ cos' = cos \o r.cos
                       /\ timers' = timers \o r.timers
                       /\ last' = [Idle("loadCallback", status) EXCEPT
                                     !.outcome = IF r.thrown = "none" THEN "returned"
                                                 ELSE "threw",
                                     !.thrown = r.thrown, !.normalized = r.normalized,
                                     !.raised = r.raised, !.handed = r.handed,
                                     !.created = r.created,
                                     !.events = <<"file-loaded">> \o r.events,
                                     !.arg = file, !.coConfig = req.coConfig,
                                     !.execute = req.execute]
    /\ UNCHANGED <<status, lastSR, nSuspends, resumeVars, files, nLoads, nExecs,
                   fileManager, globalVars, poolVars>>

(* ------------------------- the global namespace ------------------------ *)

\* shine.lib, the description of the standard library, by the kind of its top-level
\* entries: a shine.Table, a plain object (package, whose `loaded` is empty), a
\* function, any other value
Lib ==
  [package |-> "Object", string |-> "Table", print |-> "function", _VERSION |-> "other"]
\* the names the host uses: those of the library and one the library does not define
Names == DOMAIN Lib \cup {"host"}

\* the host environment maps: up to MaxEnv names, each with a host value
Envs == UNION {[S -> HostValues] : S \in {T \in SUBSET Names : Cardinality(T) <= MaxEnv}}

\* obj[n] in JavaScript: undefined when obj has no property n
Lookup(map, n) == IF n \in DOMAIN map THEN map[n] ELSE NoValue
\* obj[n] = v
SetMember(map, n, v) == [m \in DOMAIN map \cup {n} |-> IF m = n THEN v ELSE map[m]]

\* lines 66-90: a shine.Table and a plain object are bound as a new shine.Table, a
\* function as a function bound to the VM, any other value is copied
BindLib(lib) ==
  [n \in DOMAIN lib |->
     [kind |-> IF lib[n] \in {"Table", "Object"} THEN "table"
               ELSE IF lib[n] = "function" THEN "function" ELSE "scalar",
      origin |-> "lib", name |-> n]]

\* line 53 registering nothing
RegisterTablesNone(g, l) == l

\* line 53: every own entry of the globals that is a shine.Table goes into
\* package.loaded under its name
RegisterTables(g, l) ==
  LET tables == {n \in DOMAIN g : g[n].kind = "table"}
  IN [n \in DOMAIN l \cup tables |-> IF n \in tables THEN g[n] ELSE l[n]]

\* line 54 left out
RegisterSelfNone(l) == l

\* line 54: package.loaded._G = this._globals
RegisterSelf(l) == SetMember(l, "_G", GlobalsRef)

\* the overlay keeping the library's entry where both define a name
OverlayLibWins(g, e) ==
  [n \in DOMAIN g \cup DOMAIN e |-> IF n \in DOMAIN g THEN g[n] ELSE e[n]]

\* line 57: every own key of the env is assigned onto the globals
Overlay(g, e) ==
  [n \in DOMAIN g \cup DOMAIN e |-> IF n \in DOMAIN e THEN e[n] ELSE g[n]]

\* lines 49-58: the globals, and the entries of package.loaded, for the env e
ResetGlobals(e) ==
  LET g == BindLib(Lib)
  IN [globals |-> Overlay(g, e), loaded |-> RegisterSelf(RegisterTables(g, <<>>))]

Deleted == [def |-> FALSE, map |-> <<>>]

\* lines 169-171
setGlobal ==
  /\ nSets < MaxSets
  /\ nSets' = nSets + 1
  /\ \E name \in Names, value \in HostValues :
       IF globals.def
       THEN /\ globals' = [globals EXCEPT !.map = SetMember(@, name, value)]
            /\ rebound' = rebound \cup {name}
            /\ last' = [Idle("setGlobal", status) EXCEPT !.name = name, !.value = value]
       ELSE /\ last' = [Idle("setGlobal", status) EXCEPT
                          !.outcome = "threw", !.thrown = "TypeError", !.name = name]
            /\ UNCHANGED <<globals, rebound>>
  /\ UNCHANGED <<status, timers, lastSR, nSuspends, resumeVars, execVars, fileManager,
                 env, loaded, poolVars>>

\* lines 181-183
getGlobal ==
  /\ \E name \in Names :
       last' = IF globals.def
               THEN [Idle("getGlobal", status) EXCEPT
                       !.name = name, !.value = Lookup(globals.map, name)]
               ELSE [Idle("getGlobal", status) EXCEPT
                       !.outcome = "threw", !.thrown = "TypeError", !.name = name]
  /\ UNCHANGED <<status, timers, lastSR, nSuspends, resumeVars, execVars, fileManager,
                 globalVars, poolVars>>

(* ------------------- teardown and the process-wide pools ---------------- *)

\* lines 262-269 for a VM whose fileManager is there (fm) or deleted: the call of
\* this.fileManager.dispose() throws on undefined, before the statics are cleared
DisposeBody(fm, cg, cc, cog) ==
  IF fm
  THEN [threw |-> FALSE, fileManager |-> FALSE,
        closureGraveyard |-> <<>>, closureCurrent |-> 0, coroutineGraveyard |-> <<>>]
  ELSE [threw |-> TRUE, fileManager |-> FALSE,
        closureGraveyard |-> cg, closureCurrent |-> cc, coroutineGraveyard |-> cog]

\* lines 249-270; this._files is undefined, so the loop of line 252 disposes nothing
dispose ==
  LET r == DisposeBody(fileManager, closureGraveyard, closureCurrent, coroutineGraveyard)
  IN /\ files' = [def |-> FALSE, list |-> <<>>]
     /\ thread' = 0
     /\ globals' = Deleted
     /\ env' = Deleted
     /\ fileManager' = r.fileManager
     /\ closureGraveyard' = r.closureGraveyard
     /\ closureCurrent' = r.closureCurrent
     /\ coroutineGraveyard' = r.coroutineGraveyard
     /\ last' = [Idle("dispose", status) EXCEPT
                   !.outcome = IF r.threw THEN "threw" ELSE "returned",
                   !.thrown = IF r.threw THEN "TypeError" ELSE "none"]
     /\ UNCHANGED <<status, timers, lastSR, nSuspends, resumeVars, fmFiles, pendingLoads,
                    cos, nLoads, nExecs, loaded, rebound, nSets, peers, nPooled>>

\* the VMs of the process: this one is 1, the others follow
VMs == 1..(Len(peers) + 1)

\* lines 17-31: the host constructs another VM; the constructor does not touch the
\* statics
PeerConstruct ==
  /\ Len(peers) < MaxPeers
  /\ peers' = Append(peers, TRUE)
  /\ last' = Idle("peerConstruct", status)
  /\ UNCHANGED <<status, timers, lastSR, nSuspends, resumeVars, execVars, fileManager,
                 globalVars, closureGraveyard, closureCurrent, coroutineGraveyard, nPooled>>

\* lines 249-270, called on another VM of the process
PeerDispose ==
  \E i \in DOMAIN peers :
    LET r == DisposeBody(peers[i], closureGraveyard, closureCurrent, coroutineGraveyard)
    IN /\ peers' = [peers EXCEPT ![i] = r.fileManager]
       /\ closureGraveyard' = r.closureGraveyard
       /\ closureCurrent' = r.closureCurrent
       /\ coroutineGraveyard' = r.coroutineGraveyard
       /\ last' = [Idle("peerDispose", status) EXCEPT
                     !.outcome = IF r.threw THEN "threw" ELSE "returned",
                     !.thrown = IF r.threw THEN "TypeError" ELSE "none"]
       /\ UNCHANGED <<status, timers, lastSR, nSuspends, resumeVars, execVars, fileManager,
                      globalVars, nPooled>>

\* guest code of the VM v retires a closure into the closure pool, retires a
\* coroutine into the coroutine pool, or enters a closure
PoolUse ==
  /\ Ops < MaxOps
  /\ nPooled' = nPooled + 1
  /\ \E v \in VMs :
       \/ /\ closureGraveyard' = Append(closureGraveyard, v)
          /\ UNCHANGED <<closureCurrent, coroutineGraveyard>>
       \/ /\ coroutineGraveyard' = Append(coroutineGraveyard, v)
          /\ UNCHANGED <<closureGraveyard, closureCurrent>>
       \/ /\ closureCurrent' = v
          /\ UNCHANGED <<closureGraveyard, coroutineGraveyard>>
  /\ last' = Idle("poolUse", status)
  /\ UNCHANGED <<status, timers, lastSR, nSuspends, resumeVars, execVars, fileManager,
                 globalVars, peers>>

(* --------------------------- the state machine ------------------------- *)

\* lines 17-31: the constructor, called with the env e; this._files is never
\* assigned
Construct(e) ==
  /\ status = RUNNING
  /\ resumeStack = <<>>
  /\ callbackQueue = <<>>
  /\ files = [def |-> FALSE, list |-> <<>>]
  /\ thread = 0
  /\ pendingLoads = {}
  /\ timers = <<>>
  /\ cos = <<>>
  /\ last = Idle("init", RUNNING)
  /\ driven = <<>>
  /\ pushed = <<>>
  /\ lastSR = "none"
  /\ nUnits = 0 /\ nCallbacks = 0 /\ nSuspends = 0 /\ nLoads = 0 /\ nExecs = 0
  /\ fileManager = TRUE
  /\ env = [def |-> TRUE, map |-> e]
  /\ globals = [def |-> TRUE, map |-> ResetGlobals(e).globals]
  /\ loaded = ResetGlobals(e).loaded
  /\ rebound = {}
  /\ closureGraveyard = <<>>
  /\ closureCurrent = 0
  /\ coroutineGraveyard = <<>>
  /\ peers = <<>>
  /\ nSets = 0 /\ nPooled = 0

\* new shine.VM(): this._env = env || {}
Init == Construct(<<>>) /\ fmFiles = <<>>
\* new shine.VM(env) for any env
InitEnv == (\E e \in Envs : Construct(e)) /\ fmFiles = <<>>
\* the VM once load(url, false) has been called for MaxRuns files and the FileManager
\* has answered each with its file: nothing was executed
InitLoaded == Construct(<<>>) /\ fmFiles = [i \in 1..MaxRuns |-> [id |-> i, data |-> TRUE]]

\* suspend / resume: the status, the resume stack, the callback queue
ResumeNext ==
  \/ suspend
  \/ SuspendCheck
  \/ resume
  \/ Suspension
  \/ Enqueue

\* the execution driver: load, execute and the stepping of uiOnly coroutines
ExecNext ==
  \/ load
  \/ LoadCallback
  \/ execute
  \/ CoResumeStep

\* the global namespace
GlobalsNext ==
  \/ setGlobal
  \/ getGlobal
  \/ dispose

\* teardown and the statics the VMs of the process share, with the status
LifeNext ==
  \/ suspend
  \/ SuspendCheck
  \/ resume
  \/ dispose
  \/ PeerConstruct
  \/ PeerDispose
  \/ PoolUse

\* execute() on a VM whose files are loaded
BatchNext ==
  \/ execute
  \/ CoResumeStep

\* the status under every call that might touch it
StatusNext ==
  \/ suspend
  \/ SuspendCheck
  \/ resume
  \/ executeDirect
  \/ dispose

Next == ResumeNext \/ ExecNext \/ GlobalsNext \/ LifeNext

Spec == InitEnv /\ [][Next]_vars

\* The parts share little state (the timer queue, which each reads only for its
\* own timers; the fields dispose() deletes): each is checked as a specification of
\* its own, from the VM as constructed or, for execute() over loaded files, from
\* the VM with its files loaded.
SpecResume == Init /\ [][ResumeNext]_vars
SpecExec == Init /\ [][ExecNext]_vars
SpecGlobals == InitEnv /\ [][GlobalsNext]_vars
SpecLife == Init /\ [][LifeNext]_vars
SpecBatch == InitLoaded /\ [][BatchNext]_vars
SpecStatus == InitLoaded /\ [][StatusNext]_vars

\* the host's scheduler fires every timer it holds
LiveResume == SpecResume /\ WF_vars(SuspendCheck)
LiveExec == SpecExec /\ WF_vars(CoResumeStep)

(* ------------------------------- claims -------------------------------- *)

\* C1: every resume() call pops one unit, the most recently pushed one, and none
\* only when the stack is empty: the units the resume() calls since the last
\* suspension have re-driven are, in reverse order, exactly the top of the stack as
\* that suspension left it.
C1_ResumeLIFO ==
  /\ resumeStack \o Reverse(driven) = pushed
  /\ (last.op = "resume" /\ last.popped = NoUnit) => (resumeStack = <<>> /\ Reverse(driven) = pushed)
  /\ (last.op = "resume" /\ last.popped # NoUnit) => (driven # <<>> /\ Last(driven) = last.popped)

C1_Witness ==
  /\ last.op = "resume"
  /\ Len(pushed) >= 2
  /\ Len(driven) >= 2
  /\ driven[1] = pushed[Len(pushed)]
  /\ driven[2] = pushed[Len(pushed) - 1]

Parent(cb) == [cb EXCEPT !.gen = @ - 1]
Pos(seq, x) == CHOOSE i \in DOMAIN seq : seq[i] = x

\* `invoked` is what a first-in-first-out drain of `queue` invokes: first the queue
\* as it was, then the callbacks enqueued meanwhile, each after the callback that
\* enqueued it and in the order in which their enqueuers ran.
FifoDrain(queue, invoked) ==
  LET n == Len(queue) IN
  /\ Len(invoked) >= n
  /\ SubSeq(invoked, 1, n) = queue
  /\ \A i, j \in DOMAIN invoked : invoked[i] = invoked[j] => i = j
  /\ \A j \in (n + 1)..Len(invoked) : \E i \in 1..(j - 1) : invoked[i] = Parent(invoked[j])
  /\ \A j, k \in (n + 1)..Len(invoked) :
       j < k => Pos(invoked, Parent(invoked[j])) < Pos(invoked, Parent(invoked[k]))

\* C2: when a resume() call returns, with or without a unit on the resume stack, it
\* has invoked the whole callback queue first-in-first-out, the callbacks enqueued
\* during the drain included, and the queue is empty; with an empty resume stack
\* resume() raises no fault of its own (the only fault it can end with is one a
\* callback threw).
C2_DrainFIFO ==
  /\ (last.op = "resume" /\ last.outcome = "returned") =>
       (callbackQueue = <<>> /\ FifoDrain(last.preQueue, last.invoked))
  /\ (last.op = "resume" /\ last.popped = NoUnit) =>
       last.thrown \in {"none", "callbackFault"}

C2_Witness ==
  /\ last.op = "resume"
  /\ last.outcome = "returned"
  /\ last.popped # NoUnit
  /\ Len(last.preQueue) >= 2
  /\ Len(last.invoked) > Len(last.preQueue)
  /\ callbackQueue = <<>>

\* C3 as stated: a deferred check of a suspend() that resume() has followed changes
\* nothing when it fires, and the status then is neither SUSPENDING nor SUSPENDED.
C3_Original ==
  (last.op = "suspendCheck" /\ last.timer.resumed) =>
    (status = last.statusBefore /\ status \notin {SUSPENDING, SUSPENDED})

\* C3 amended: a deferred check of a suspend() that resume() has followed, firing
\* while that resume() is still the last suspend()/resume() call, changes nothing:
\* the status was RESUMING and stays RESUMING.
C3_Amended ==
  (last.op = "suspendCheck" /\ last.timer.resumed /\ lastSR = "resume") =>
    (last.statusBefore = RESUMING /\ status = RESUMING)

C3_Witness ==
  /\ last.op = "suspendCheck"
  /\ last.timer.resumed
  /\ lastSR = "resume"
  /\ status = RESUMING

\* C4: suspend() leaves the status SUSPENDING; the status becomes SUSPENDED only by
\* a deferred check that fires while it is SUSPENDING; a deferred check that fires
\* in any other status changes nothing.
C4_SuspendedOnlyByCheck ==
  /\ last.op = "suspend" => status = SUSPENDING
  /\ (status = SUSPENDED /\ last.statusBefore # SUSPENDED) =>
       (last.op = "suspendCheck" /\ last.statusBefore = SUSPENDING)
  /\ (last.op = "suspendCheck" /\ last.statusBefore # SUSPENDING) =>
       status = last.statusBefore
  /\ last.op \notin {"suspend", "suspendCheck", "resume"} => status = last.statusBefore

C4_Witness ==
  /\ status = SUSPENDED
  /\ last.op = "suspendCheck"
  /\ last.statusBefore = SUSPENDING

\* C5 as stated: after suspend() the status eventually is SUSPENDED unless resume()
\* is called, and once SUSPENDED it stays so until a resume() call.
C5_Original ==
  /\ (status = SUSPENDING) ~> (status = SUSPENDED \/ status = RESUMING)
  /\ [][status = SUSPENDED => (status' = SUSPENDED \/ last'.op = "resume")]_vars

\* C5 amended: after suspend() the status eventually is SUSPENDED unless resume() is
\* called, and once SUSPENDED it stays so until the next resume() or suspend() call
\* (a further suspend() takes it back to SUSPENDING).
C5_Amended ==
  /\ (status = SUSPENDING) ~> (status = SUSPENDED \/ status = RESUMING)
  /\ [][status = SUSPENDED =>
          (status' = SUSPENDED \/ last'.op = "resume" \/ last'.op = "suspend")]_vars

C5_Witness ==
  /\ status = SUSPENDED
  /\ lastSR = "suspend"
  /\ last.op = "suspendCheck"
  /\ timers = <<>>

\* C6: when the unit resume() re-drives throws, whatever its kind and whatever it
\* throws, the normalizer is handed one structured error whose luaStack ends with
\* the frame (the unit, its _pc - 1), a value that is no shine.Error being wrapped.
C6_Claim ==
  (last.op = "resume" /\ last.popped # NoUnit /\ last.raised # "none") =>
    /\ Len(last.handed) = 1
    /\ last.handed[1].type = "shineError"
    /\ last.handed[1].wrapped = ~IsShineError(last.raised)
    /\ Last(last.handed[1].luaStack).unit = last.popped.id
    /\ last.pc.t = "number" => Last(last.handed[1].luaStack).pc = NumVal(last.pc.n - 1)

\* C7: every fault guest execution raises, in execute(), in resume() or in a
\* scheduled resume-step of a uiOnly coroutine, is handed to the normalizer.
C7_Claim == last.raised # "none" => last.handed # <<>>

\* C8: execute() without a file argument creates one unit per loaded file, in load
\* order (as long as no unit faults).
C8_Claim ==
  (last.op = "execute" /\ last.arg = NoFile /\ fmFiles # <<>> /\ last.raised = "none") =>
    last.created = [i \in DOMAIN fmFiles |-> fmFiles[i].id]

\* C9: execute() raises 'no files' when its target list (the file given, or else
\* the loaded files) is empty and 'data not loaded' when a target has no data, and
\* then it has created no unit and emitted no notification.
C9_Claim ==
  last.op = "execute" =>
    LET list == IF last.arg # NoFile THEN <<last.arg>> ELSE fmFiles IN
    /\ list = <<>> =>
         (last.thrown = "NoFiles" /\ last.created = <<>> /\ last.events = <<>>)
    /\ (\E i \in DOMAIN list : ~list[i].data) =>
         (last.thrown = "NoData" /\ last.created = <<>> /\ last.events = <<>>)

CoTimers(i) == {j \in DOMAIN timers : timers[j].type = "coStep" /\ timers[j].co = i}
CoUiOnly(i) == i \in DOMAIN cos /\ cos[i].uiOnly
CoDead(i) == i \in DOMAIN cos /\ cos[i].status = DEAD

\* a uiOnly coroutine has run one resume-step in each scheduler turn it was given, so
\* a unit finished after k steps took k turns; while it is not DEAD exactly one timer
\* is scheduled for its next step, and none once it is DEAD
C10_OneStepPerTurn ==
  \A i \in DOMAIN cos :
    cos[i].uiOnly =>
      /\ cos[i].done = cos[i].turns
      /\ cos[i].status = DEAD => CoTimers(i) = {}
      /\ cos[i].status # DEAD => Cardinality(CoTimers(i)) = 1

\* C10: a uiOnly coroutine runs one resume-step per scheduler turn, the later ones
\* from timers, takes as many turns as the unit needs steps, is scheduled no more
\* once DEAD, and under a fair scheduler eventually is DEAD.
C10_UiOnlyStepping ==
  /\ []C10_OneStepPerTurn
  /\ \A i \in 1..MaxRuns : [](CoUiOnly(i) => <>CoDead(i))

C10_Witness ==
  /\ last.op = "coStep"
  /\ \E i \in DOMAIN cos :
       /\ cos[i].uiOnly /\ ~cos[i].faulted
       /\ cos[i].status = DEAD
       /\ cos[i].done = 3 /\ cos[i].turns = 3
       /\ CoTimers(i) = {}

\* C11: a coroutine execute() has wrapped, with or without uiOnly, is driven by
\* repeated resume-steps until it is DEAD: while it is not DEAD, its next
\* resume-step is pending.
C11_Claim ==
  \A i \in DOMAIN cos : cos[i].status # DEAD => CoTimers(i) # {}

\* C12: every key of the env is a global whose value is exactly the env value, also
\* when the library defines the name: until setGlobal() writes the name, the global
\* is the value the env gave.
C12_EnvWins ==
  globals.def =>
    \A n \in DOMAIN env.map \ rebound :
      n \in DOMAIN globals.map /\ globals.map[n] = env.map[n]

C12_Witness ==
  /\ globals.def
  /\ last.op = "getGlobal"
  /\ last.name = "string"
  /\ "string" \in DOMAIN env.map
  /\ last.value = env.map["string"]
  /\ "host" \in DOMAIN env.map
  /\ globals.map["host"] = env.map["host"]

\* globals.package.loaded[n]: a value the host supplied has no `loaded`
PackageLoaded(n) ==
  IF Lookup(globals.map, "package") = BindLib(Lib)["package"]
  THEN Lookup(loaded, n) ELSE NoValue

\* C13 as stated: while the VM is live, whatever the env and whatever setGlobal() has
\* written, package.loaded._G of the globals is the globals themselves.
C13_Original == globals.def => PackageLoaded("_G") = GlobalsRef

\* C13 amended: while the VM is live and neither the env nor setGlobal() has bound
\* the name package, package.loaded._G of the globals is the globals themselves; the
\* `loaded` table of the library's package table always has that entry.
C13_Amended ==
  /\ Lookup(loaded, "_G") = GlobalsRef
  /\ (globals.def /\ "package" \notin DOMAIN env.map /\ "package" \notin rebound) =>
       PackageLoaded("_G") = GlobalsRef

C13_Witness ==
  /\ globals.def
  /\ DOMAIN env.map = {"string", "host"}
  /\ last.op = "setGlobal"
  /\ last.name = "print"
  /\ PackageLoaded("_G") = GlobalsRef

\* C14 as stated: after _resetGlobals, for every env, each global that is a table is
\* the entry of package.loaded of the same name.
C14_Original ==
  (globals.def /\ rebound = {}) =>
    \A n \in DOMAIN globals.map :
      globals.map[n].kind = "table" => PackageLoaded(n) = globals.map[n]

\* C14 amended: each global that is a table bound from the library is the entry of
\* the same name in the `loaded` table of the library's package table, which the
\* globals reach as package.loaded unless the env has bound the name package; a
\* table the env supplies, under a library name or a new one, is not registered.
C14_Amended ==
  globals.def =>
    /\ \A n \in DOMAIN globals.map :
         (globals.map[n].kind = "table" /\ globals.map[n].origin = "lib") =>
           /\ Lookup(loaded, n) = globals.map[n]
           /\ ("package" \notin DOMAIN env.map \cup rebound) =>
                PackageLoaded(n) = globals.map[n]
    /\ \A n \in DOMAIN loaded : loaded[n].origin # "host"

C14_Witness ==
  /\ globals.def
  /\ rebound = {}
  /\ DOMAIN env.map = {"host", "print"}
  /\ env.map["host"] = HostTable
  /\ PackageLoaded("string") = globals.map["string"]
  /\ globals.map["string"].kind = "table"
  /\ PackageLoaded("package") = globals.map["package"]
  /\ PackageLoaded("host") = NoValue
  /\ last.op = "getGlobal"
  /\ last.name = "host"
  /\ last.value = HostTable

\* C15: every dispose() call on this VM, the second one included, completes without
\* raising a fault.
C15_Claim == last.op = "dispose" => last.outcome = "returned"

\* C16: after every dispose() call, on this VM or on another VM of the process and
\* whatever the status of this VM, both pools are empty and the current-closure
\* marker is cleared, whichever VM the records came from.
C16_Claim ==
  last.op \in {"dispose", "peerDispose"} =>
    (closureGraveyard = <<>> /\ coroutineGraveyard = <<>> /\ closureCurrent = 0)

\* the load callback has emitted file-loaded and then executed the file it was given
Executed ==
  /\ last.events = <<"file-loaded", "executing">>
  /\ last.created = <<last.arg.id>>
\* the load callback has emitted file-loaded and nothing else, and created no unit
NotExecuted == last.events = <<"file-loaded">> /\ last.created = <<>>
\* a failed load: the fetch error, no notification, no unit
LoadFailed == last.events = <<>> /\ last.created = <<>> /\ last.arg = NoFile

\* C17 as stated: a successful load emits file-loaded and then executes the file for
\* every execute argument but the boolean false, which alone suppresses it; a failed
\* load raises the fetch error, emits nothing and executes nothing.
C17_Original ==
  last.op = "loadCallback" =>
    IF last.thrown = "URIError" THEN LoadFailed
    ELSE IF last.execute = "false" THEN NotExecuted ELSE Executed

\* C17 amended: a successful load emits file-loaded and then executes the file when
\* the execute argument is omitted or truthy; false and every other falsy value that
\* is not undefined (0, null, '') suppress the execution; a failed load raises the
\* fetch error, emits nothing and executes nothing.
C17_Amended ==
  last.op = "loadCallback" =>
    IF last.thrown = "URIError" THEN LoadFailed
    ELSE IF last.execute \in {"undefined", "true", "one"} THEN Executed ELSE NotExecuted

C17_Witness ==
  /\ last.op = "loadCallback"
  /\ last.execute = "one"
  /\ Executed
  /\ thread = last.arg.id
  /\ \E f \in Range(fmFiles) : f.id # last.arg.id

\* C18: when execute() runs over several targets (no file given, several files
\* loaded), a fault of one target goes to the normalizer; if the normalizer returns
\* for every fault, every target has got its unit and its `executing` notification,
\* in load order; if it re-raises, the targets up to the faulting one have, and no
\* later one.
C18_Claim ==
  (last.op = "execute" /\ last.arg = NoFile /\ Len(fmFiles) >= 2) =>
    LET all == [i \in DOMAIN fmFiles |-> fmFiles[i].id] IN
    /\ Len(last.events) = Len(last.created)
    /\ Len(last.handed) <= Len(last.created)
    /\ last.created = SubSeq(all, 1, Len(last.created))
    /\ ~last.normalized => last.created = all
    /\ last.normalized => (last.handed # <<>> /\ last.raised # "none")

\* the status tells which of suspend() and resume() was called last, if any
StatusFollowsCalls ==
  /\ status = RUNNING <=> lastSR = "none"
  /\ status = RESUMING <=> lastSR = "resume"
  /\ status \in {SUSPENDING, SUSPENDED} <=> lastSR = "suspend"
  /\ status # DEAD

\* C19: over every interleaving of suspend(), resume(), execute(), dispose() and the
\* deferred checks, the status is RUNNING exactly when neither suspend() nor resume()
\* was ever called, RESUMING exactly when resume() was the later of the two, and
\* SUSPENDING or SUSPENDED exactly when suspend() was; it is never DEAD and, once it
\* has left RUNNING, never RUNNING again.
C19_StatusHistory ==
  /\ []StatusFollowsCalls
  /\ [][status # RUNNING => status' # RUNNING]_vars

C19_Witness ==
  /\ last.op = "dispose"
  /\ last.outcome = "returned"
  /\ status = SUSPENDED
  /\ lastSR = "suspend"
  /\ nSuspends >= 2
  /\ nExecs >= 1
  /\ \E i \in DOMAIN timers : timers[i].resumed

IsPrefix(a, b) == Len(a) <= Len(b) /\ SubSeq(b, 1, Len(a)) = a
\* the callbacks of `queue` that are not among `invoked`, in the order of `queue`
NotInvoked(queue, invoked) ==
  LET Waiting(cb) == cb \notin Range(invoked) IN SelectSeq(queue, Waiting)

\* a resume() call ended by a fault has left in the queue, at its head and in their
\* order, the callbacks it found there and did not invoke, followed only by
\* callbacks the invoked ones enqueued; no invoked callback is queued again; the
\* unit it popped is not on the resume stack; a fault of the unit leaves the queue
\* as it was
FaultKeepsQueue ==
  (last.op = "resume" /\ last.outcome = "threw") =>
    LET rem == NotInvoked(last.preQueue, last.invoked) IN
    /\ IsPrefix(rem, callbackQueue)
    /\ Range(callbackQueue) \cap Range(last.invoked) = {}
    /\ \A j \in (Len(rem) + 1)..Len(callbackQueue) :
         Parent(callbackQueue[j]) \in Range(last.invoked)
    /\ last.popped # NoUnit => last.popped \notin Range(resumeStack)
    /\ last.thrown \in {"TypeError", "shineError"} =>
         (last.invoked = <<>> /\ callbackQueue = last.preQueue)

\* every resume() call invokes the callbacks from the head of the queue it finds, in
\* the order of the queue
InvokesFromHead ==
  last.op = "resume" =>
    /\ \A i \in DOMAIN last.invoked \cap DOMAIN last.preQueue :
         last.invoked[i] = last.preQueue[i]
    /\ last.thrown = "none" => Len(last.invoked) >= Len(last.preQueue)
    /\ (last.thrown = "callbackFault" /\ Len(last.invoked) < Len(last.preQueue)) =>
         callbackQueue # <<>>

\* C20: a fault never loses or reorders queued callbacks: a resume() call ended by a
\* fault of its unit or of a callback leaves every callback not yet invoked in the
\* queue in its order and does not put the popped unit back; between resume() calls
\* the queue only grows at its tail; and the next resume() invokes from its head.
C20_FaultKeepsCallbacks ==
  /\ [](FaultKeepsQueue /\ InvokesFromHead)
  /\ [][last'.op # "resume" => IsPrefix(callbackQueue, callbackQueue')]_vars

C20_Witness ==
  /\ last.op = "resume"
  /\ last.thrown = "callbackFault"
  /\ last.popped # NoUnit
  /\ Len(last.preQueue) = 2
  /\ last.invoked = <<last.preQueue[1]>>
  /\ callbackQueue = <<last.preQueue[2]>>

====
